---- MODULE Spec2Model ----
(***************************************************************************)
(* jsolines: isolines of a regular grid by Marching Squares.               *)
(*                                                                         *)
(* One invocation of jsolines() is modelled as a state machine: the        *)
(* inputs are chosen in Init, getContour() builds the case grid, the       *)
(* row-major scan starts a trace at every unvisited cell that has a line,  *)
(* one TraceStep is one iteration of the `while (true)` loop, and the      *)
(* holes are then nested into the shells and the MultiPolygon returned.    *)
(*                                                                         *)
(* Numbers that can be fractional (ring coordinates) are exact rationals   *)
(* <<n, d>> with d > 0 in lowest terms; d = 0 stands for the IEEE values   *)
(* a division by zero produces: <<0,0>> NaN, <<1,0>> +Infinity and         *)
(* <<-1,0>> -Infinity.  A read outside a typed array yields `undefined`,   *)
(* written Undefined here.                                                 *)
(*                                                                         *)
(* log is a history variable: it records, for every trace the scan has    *)
(* started, the cell it started from, the cells it stepped through, the    *)
(* winding sum after each step and how the trace ended.  No action reads   *)
(* it.  The debug array `indices` of the source only feeds a log message   *)
(* and is left out.                                                        *)
(***************************************************************************)
EXTENDS Integers, Sequences, FiniteSets, TLC

\* ------------------------------------------------------------------ bounds
MaxWidth == 5
MaxHeight == 5
MaxInner == 9
MaxSample == 2
CutoffValue == 1
MaxContourWidth == 4
MaxContourHeight == 4
MaxContourSamples == 16
MaxCap == 6
MaxNestWidth == 7
MaxNestHeight == 5
MaxNestInner == 15

\* ------------------------------------------------- program constants
MAX_COORDS == 20000

\* `undefined`: samples and cases are Uint8 values, so -1 is none of them
Undefined == -1

VARIABLES
  surface, width, height, cutoff, maxCoordinates, interpolation,  \* arguments
  contour, found, shells, holes,                                  \* jsolines locals
  origx, origy,                                                   \* scan position
  x, y, prevx, prevy, startx, starty, idx, direction, coords,     \* trace locals
  pc,                                                             \* position in jsolines
  outcome,                                                        \* how the last trace ended
  holeIdx,                                                        \* forEach position
  inside,                                                         \* inside(holePoint, shell), by hole and shell
  result,                                                         \* return value
  log                                                             \* history: one record per trace

args == <<surface, width, height, cutoff, maxCoordinates, interpolation>>
trace == <<x, y, prevx, prevy, startx, starty, idx, direction, coords>>
vars == <<surface, width, height, cutoff, maxCoordinates, interpolation,
          contour, found, shells, holes, origx, origy,
          x, y, prevx, prevy, startx, starty, idx, direction, coords,
          pc, outcome, holeIdx, inside, result, log>>

\* --------------------------------------------------------------- rationals
RECURSIVE Gcd(_, _)
Gcd(a, b) == IF b = 0 THEN a ELSE Gcd(b, a % b)

Abs(n) == IF n < 0 THEN -n ELSE n

NaN == <<0, 0>>
PosInfinity == <<1, 0>>
NegInfinity == <<-1, 0>>
Half == <<1, 2>>

Whole(n) == <<n, 1>>

\* n / d as JavaScript's `/` on numbers computes it
Div(n, d) ==
  IF d = 0 THEN (IF n = 0 THEN NaN ELSE IF n > 0 THEN PosInfinity ELSE NegInfinity)
  ELSE LET g == Gcd(Abs(n), Abs(d))
           s == IF d < 0 THEN -1 ELSE 1
       IN <<(s * n) \div g, (s * d) \div g>>

\* integer k plus the number r
Plus(k, r) == IF r[2] = 0 THEN r ELSE <<k * r[2] + r[1], r[2]>>

\* (c - a) / (b - a) on samples, either of which may be undefined
fraction(c, a, b) ==
  IF a = Undefined \/ b = Undefined THEN NaN ELSE Div(c - a, b - a)

\* --------------------------------------------------------------- getContour
\* mutant: a sample equal to the cutoff counts as below
below_orEqual(s, c) == s # Undefined /\ s <= c

below(s, c) == s # Undefined /\ s < c

SurfaceAt(srf, i) == IF i \in DOMAIN srf THEN srf[i] ELSE Undefined

\* mutant: bottom-left on bit 1 and bottom-right on bit 0
cellCase_swapBottom(srf, w, h, c, cx, cy) ==
  LET index == cy * w + cx
      topLeft == below(SurfaceAt(srf, index), c) /\ cx # 0 /\ cy # 0
      topRight == below(SurfaceAt(srf, index + 1), c) /\ cx # w - 2 /\ cy # 0
      botLeft == below(SurfaceAt(srf, index + w), c) /\ cx # 0 /\ cy # h - 2
      botRight == below(SurfaceAt(srf, index + w + 1), c) /\ cx # w - 2 /\ cy # h - 2
  IN (IF topLeft THEN 8 ELSE 0) + (IF topRight THEN 4 ELSE 0)
     + (IF botLeft THEN 2 ELSE 0) + (IF botRight THEN 1 ELSE 0)

\* mutant: bottom-right on bit 3 and top-left on bit 1
cellCase_swapDiagonal(srf, w, h, c, cx, cy) ==
  LET index == cy * w + cx
      topLeft == below(SurfaceAt(srf, index), c) /\ cx # 0 /\ cy # 0
      topRight == below(SurfaceAt(srf, index + 1), c) /\ cx # w - 2 /\ cy # 0
      botLeft == below(SurfaceAt(srf, index + w), c) /\ cx # 0 /\ cy # h - 2
      botRight == below(SurfaceAt(srf, index + w + 1), c) /\ cx # w - 2 /\ cy # h - 2
  IN (IF botRight THEN 8 ELSE 0) + (IF topRight THEN 4 ELSE 0)
     + (IF topLeft THEN 2 ELSE 0) + (IF botLeft THEN 1 ELSE 0)

\* mutant: the last row is not closed
cellCase_openBottom(srf, w, h, c, cx, cy) ==
  LET index == cy * w + cx
      topLeft == below(SurfaceAt(srf, index), c) /\ cx # 0 /\ cy # 0
      topRight == below(SurfaceAt(srf, index + 1), c) /\ cx # w - 2 /\ cy # 0
      botLeft == below(SurfaceAt(srf, index + w), c) /\ cx # 0
      botRight == below(SurfaceAt(srf, index + w + 1), c) /\ cx # w - 2
  IN (IF topLeft THEN 8 ELSE 0) + (IF topRight THEN 4 ELSE 0)
     + (IF botRight THEN 2 ELSE 0) + (IF botLeft THEN 1 ELSE 0)

\* mutant: the last column is not closed
cellCase_openRight(srf, w, h, c, cx, cy) ==
  LET index == cy * w + cx
      topLeft == below(SurfaceAt(srf, index), c) /\ cx # 0 /\ cy # 0
      topRight == below(SurfaceAt(srf, index + 1), c) /\ cy # 0
      botLeft == below(SurfaceAt(srf, index + w), c) /\ cx # 0 /\ cy # h - 2
      botRight == below(SurfaceAt(srf, index + w + 1), c) /\ cy # h - 2
  IN (IF topLeft THEN 8 ELSE 0) + (IF topRight THEN 4 ELSE 0)
     + (IF botRight THEN 2 ELSE 0) + (IF botLeft THEN 1 ELSE 0)

\* the case of cell (cx, cy): the body of getContour's double loop
cellCase(srf, w, h, c, cx, cy) ==
  LET index == cy * w + cx
      topLeft0 == below(SurfaceAt(srf, index), c)
      topRight0 == below(SurfaceAt(srf, index + 1), c)
      botLeft0 == below(SurfaceAt(srf, index + w), c)
      botRight0 == below(SurfaceAt(srf, index + w + 1), c)
      topLeft == topLeft0 /\ cx # 0 /\ cy # 0
      topRight == topRight0 /\ cx # w - 2 /\ cy # 0
      botLeft == botLeft0 /\ cx # 0 /\ cy # h - 2
      botRight == botRight0 /\ cx # w - 2 /\ cy # h - 2
  IN (IF topLeft THEN 8 ELSE 0) + (IF topRight THEN 4 ELSE 0)
     + (IF botRight THEN 2 ELSE 0) + (IF botLeft THEN 1 ELSE 0)

getContour(srf, w, h, c) ==
  [i \in 0 .. ((w - 1) * (h - 1) - 1) |-> cellCase(srf, w, h, c, i % (w - 1), i \div (w - 1))]

\* --------------------------------------------------------------- followLoop
\* mutant: case 3 leaves to the right
followLoop_case3(i, px, py, cx, cy) ==
  CASE i \in {1, 7} -> <<cx - 1, cy>>
    [] i \in {2, 6, 14} -> <<cx, cy + 1>>
    [] i \in {3, 4, 12, 13} -> <<cx + 1, cy>>
    [] i \in {8, 9, 11} -> <<cx, cy - 1>>
    [] i = 5 -> IF py > cy THEN <<cx + 1, cy>>
                ELSE IF py < cy THEN <<cx - 1, cy>>
                ELSE <<cx, cy>>
    [] i = 10 -> IF px < cx THEN <<cx, cy + 1>>
                 ELSE IF px > cx THEN <<cx, cy - 1>>
                 ELSE <<cx, cy>>
    [] OTHER -> <<>>

\* mutant: case 4 leaves upwards
followLoop_case4(i, px, py, cx, cy) ==
  CASE i \in {1, 3, 7} -> <<cx - 1, cy>>
    [] i \in {2, 6, 14} -> <<cx, cy + 1>>
    [] i \in {12, 13} -> <<cx + 1, cy>>
    [] i \in {4, 8, 9, 11} -> <<cx, cy - 1>>
    [] i = 5 -> IF py > cy THEN <<cx + 1, cy>>
                ELSE IF py < cy THEN <<cx - 1, cy>>
                ELSE <<cx, cy>>
    [] i = 10 -> IF px < cx THEN <<cx, cy + 1>>
                 ELSE IF px > cx THEN <<cx, cy - 1>>
                 ELSE <<cx, cy>>
    [] OTHER -> <<>>

\* mutant: case 6 leaves upwards
followLoop_case6(i, px, py, cx, cy) ==
  CASE i \in {1, 3, 7} -> <<cx - 1, cy>>
    [] i \in {2, 14} -> <<cx, cy + 1>>
    [] i \in {4, 12, 13} -> <<cx + 1, cy>>
    [] i \in {6, 8, 9, 11} -> <<cx, cy - 1>>
    [] i = 5 -> IF py > cy THEN <<cx + 1, cy>>
                ELSE IF py < cy THEN <<cx - 1, cy>>
                ELSE <<cx, cy>>
    [] i = 10 -> IF px < cx THEN <<cx, cy + 1>>
                 ELSE IF px > cx THEN <<cx, cy - 1>>
                 ELSE <<cx, cy>>
    [] OTHER -> <<>>

\* mutant: the two exits of a saddle are exchanged
followLoop_saddles(i, px, py, cx, cy) ==
  CASE i \in {1, 3, 7} -> <<cx - 1, cy>>
    [] i \in {2, 6, 14} -> <<cx, cy + 1>>
    [] i \in {4, 12, 13} -> <<cx + 1, cy>>
    [] i \in {8, 9, 11} -> <<cx, cy - 1>>
    [] i = 5 -> IF py > cy THEN <<cx - 1, cy>>
                ELSE IF py < cy THEN <<cx + 1, cy>>
                ELSE <<cx, cy>>
    [] i = 10 -> IF px < cx THEN <<cx, cy - 1>>
                 ELSE IF px > cx THEN <<cx, cy + 1>>
                 ELSE <<cx, cy>>
    [] OTHER -> <<>>

\* the cell the line leaves to; <<>> is `undefined` (no case matched)
followLoop(i, px, py, cx, cy) ==
  CASE i \in {1, 3, 7} -> <<cx - 1, cy>>
    [] i \in {2, 6, 14} -> <<cx, cy + 1>>
    [] i \in {4, 12, 13} -> <<cx + 1, cy>>
    [] i \in {8, 9, 11} -> <<cx, cy - 1>>
    [] i = 5 -> IF py > cy THEN <<cx + 1, cy>>
                ELSE IF py < cy THEN <<cx - 1, cy>>
                ELSE <<cx, cy>>
    [] i = 10 -> IF px < cx THEN <<cx, cy + 1>>
                 ELSE IF px > cx THEN <<cx, cy - 1>>
                 ELSE <<cx, cy>>
    [] OTHER -> <<>>

\* ------------------------------------------------------------ interpolation
ensureFractionIsNumber(frac) ==
  IF frac = NaN \/ frac = PosInfinity THEN Half ELSE frac

\* mutant: the samples of the rim are read as they are
cornerSamples_raw(srf, w, h, c, cx, cy) ==
  LET index == cy * w + cx
  IN [topLeft |-> SurfaceAt(srf, index), topRight |-> SurfaceAt(srf, index + 1),
      botLeft |-> SurfaceAt(srf, index + w), botRight |-> SurfaceAt(srf, index + w + 1)]

\* the four corner samples of cell (cx, cy), those on the rim set to the cutoff
cornerSamples(srf, w, h, c, cx, cy) ==
  LET index == cy * w + cx
  IN [topLeft |-> IF cx = 0 \/ cy = 0 THEN c ELSE SurfaceAt(srf, index),
      topRight |-> IF cy = 0 \/ cx = w - 2 THEN c ELSE SurfaceAt(srf, index + 1),
      botLeft |-> IF cx = 0 \/ cy = h - 2 THEN c ELSE SurfaceAt(srf, index + w),
      botRight |-> IF cy = h - 2 \/ cx = w - 2 THEN c ELSE SurfaceAt(srf, index + w + 1)]

\* the two samples <<a, b>> the fraction is computed from, coming from cell
\* (sx, sy) into cell (cx, cy); <<>> when no direction matches
crossedEdge(srf, w, h, c, sx, sy, cx, cy) ==
  LET k == cornerSamples(srf, w, h, c, cx, cy)
  IN IF sx < cx THEN <<k.topLeft, k.botLeft>>
     ELSE IF sx > cx THEN <<k.topRight, k.botRight>>
     ELSE IF sy > cy THEN <<k.botLeft, k.botRight>>
     ELSE IF sy < cy THEN <<k.topLeft, k.topRight>>
     ELSE <<>>

\* the coordinate of the crossing, <<>> when no direction matches
interpolate(srf, w, h, c, sx, sy, cx, cy) ==
  LET e == crossedEdge(srf, w, h, c, sx, sy, cx, cy)
      frac == ensureFractionIsNumber(fraction(c, e[1], e[2]))
  IN IF sx < cx THEN <<Whole(cx), Plus(cy, frac)>>
     ELSE IF sx > cx THEN <<Whole(cx + 1), Plus(cy, frac)>>
     ELSE IF sy > cy THEN <<Plus(cx, frac), Whole(cy + 1)>>
     ELSE IF sy < cy THEN <<Plus(cx, frac), Whole(cy)>>
     ELSE <<>>

\* mutant: coming from the right, the left edge of the cell is taken
noInterpolate_leftEdge(sx, sy, cx, cy) ==
  IF sx < cx THEN <<Whole(cx), Plus(cy, Half)>>
  ELSE IF sx > cx THEN <<Whole(cx), Plus(cy, Half)>>
  ELSE IF sy > cy THEN <<Plus(cx, Half), Whole(cy + 1)>>
  ELSE IF sy < cy THEN <<Plus(cx, Half), Whole(cy)>>
  ELSE <<>>

noInterpolate(sx, sy, cx, cy) ==
  IF sx < cx THEN <<Whole(cx), Plus(cy, Half)>>
  ELSE IF sx > cx THEN <<Whole(cx + 1), Plus(cy, Half)>>
  ELSE IF sy > cy THEN <<Plus(cx, Half), Whole(cy + 1)>>
  ELSE IF sy < cy THEN <<Plus(cx, Half), Whole(cy)>>
  ELSE <<>>

\* the caller's projection: the identity on grid coordinates
project(coord) == coord

\* ------------------------------------------------------------------ inputs
IsEdgeSample(i, w, h) ==
  \/ i % w = 0
  \/ i % w = w - 1
  \/ i \div w = 0
  \/ i \div w = h - 1

\* two sample levels, and cutoffs that lie strictly between them or equal the
\* high one: a sample is below, equal to or above the cutoff
Samples == {0, MaxSample}
Cutoffs == CutoffValue .. MaxSample

\* the surfaces of a w x h grid: every inner sample is free, the samples on
\* the rim of the grid all take one (free) value
Surfaces(w, h) ==
  LET inner == {i \in 0 .. (w * h - 1) : ~IsEdgeSample(i, w, h)}
  IN {[i \in 0 .. (w * h - 1) |-> IF i \in inner THEN f[i] ELSE e] :
        f \in [inner -> Samples], e \in Samples}

cWidth == width - 1

\* the state before the first statement of jsolines
InitLocals ==
  /\ contour = <<>>
  /\ found = <<>>
  /\ shells = <<>>
  /\ holes = <<>>
  /\ origx = 0
  /\ origy = 0
  /\ x = 0
  /\ y = 0
  /\ prevx = -1
  /\ prevy = -1
  /\ startx = -1
  /\ starty = -1
  /\ idx = 0
  /\ direction = 0
  /\ coords = <<>>
  /\ pc = "start"
  /\ outcome = "none"
  /\ holeIdx = 1
  /\ inside = <<>>
  /\ result = <<>>
  /\ log = <<>>

\* the number of samples of a w x h grid that are not on its rim
Inner(w, h) == (w - 2) * (h - 2)

\* a call with the default maxCoordinates
Init ==
  /\ width \in 2 .. MaxWidth
  /\ height \in 2 .. MaxHeight
  /\ Inner(width, height) <= MaxInner
  /\ surface \in Surfaces(width, height)
  /\ cutoff \in Cutoffs
  /\ maxCoordinates = MAX_COORDS
  /\ interpolation \in BOOLEAN
  /\ InitLocals

\* getContour() called on its own, with every sample of the surface free
InitContour ==
  /\ width \in 2 .. MaxContourWidth
  /\ height \in 2 .. MaxContourHeight
  /\ width * height <= MaxContourSamples
  /\ surface \in [0 .. (width * height - 1) -> Samples]
  /\ cutoff \in Cutoffs
  /\ maxCoordinates = MAX_COORDS
  /\ interpolation = TRUE
  /\ InitLocals

\* a call that passes a small maxCoordinates, or none
InitCap ==
  /\ width \in 2 .. MaxWidth
  /\ height \in 2 .. MaxHeight
  /\ Inner(width, height) <= MaxInner
  /\ surface \in Surfaces(width, height)
  /\ cutoff = CutoffValue
  /\ maxCoordinates \in (1 .. MaxCap) \cup {MAX_COORDS}
  /\ interpolation = TRUE
  /\ InitLocals

\* the surfaces of a w x h grid that are their own mirror image top to bottom
MirroredSurfaces(w, h) ==
  LET row(i) == IF i \div w < h - 1 - (i \div w) THEN i \div w ELSE h - 1 - (i \div w)
      half(i) == row(i) * w + (i % w)
      inner == {i \in 0 .. (w * h - 1) : ~IsEdgeSample(i, w, h)}
      free == {half(i) : i \in inner}
  IN {[i \in 0 .. (w * h - 1) |-> IF i \in inner THEN f[half(i)] ELSE e] :
        f \in [free -> Samples], e \in Samples}

\* a call on a wider grid, which has room for two shells and a hole
InitNest ==
  /\ width \in 2 .. MaxNestWidth
  /\ height \in 2 .. MaxNestHeight
  /\ Inner(width, height) <= MaxNestInner
  /\ surface \in MirroredSurfaces(width, height)
  /\ cutoff = CutoffValue
  /\ maxCoordinates = MAX_COORDS
  /\ interpolation = TRUE
  /\ InitLocals

\* a call without interpolation that passes a small maxCoordinates, or none,
\* on a mirrored surface
InitLive ==
  /\ width \in 2 .. MaxWidth
  /\ height \in 2 .. MaxHeight
  /\ Inner(width, height) <= MaxInner
  /\ surface \in MirroredSurfaces(width, height)
  /\ cutoff = CutoffValue
  /\ maxCoordinates \in (1 .. MaxCap) \cup {MAX_COORDS}
  /\ interpolation = FALSE
  /\ InitLocals

\* ----------------------------------------------------------------- actions
\* const contour = getContour(...); const found = new Uint8Array(...)
GetContour ==
  /\ pc = "start"
  /\ contour' = getContour(surface, width, height, cutoff)
  /\ found' = [i \in 0 .. ((width - 1) * (height - 1) - 1) |-> 0]
  /\ pc' = "scan"
  /\ UNCHANGED <<args, shells, holes, origx, origy, trace, outcome, holeIdx, inside,
                 result, log>>

\* mutant: origx wraps around and origy is never incremented
NextOrig_sameRow ==
  /\ origx' = (origx + 1) % (width - 1)
  /\ origy' = origy

\* the loop increments of `for origy ... for origx`
NextOrig ==
  IF origx + 1 < width - 1
  THEN origx' = origx + 1 /\ origy' = origy
  ELSE origx' = 0 /\ origy' = origy + 1

\* mutant: the scan does not skip the cells already visited
scanSkips_visited(i) == contour[i] \in {0, 5, 10, 15}

\* does the scan `continue` at the cell with index i
scanSkips(i) == found[i] = 1 \/ contour[i] \in {0, 5, 10, 15}

\* a scan iteration that hits `continue`
ScanSkip ==
  /\ pc = "scan"
  /\ origy < height - 1
  /\ scanSkips(origy * cWidth + origx)
  /\ NextOrig
  /\ UNCHANGED <<args, contour, found, shells, holes, trace, pc, outcome, holeIdx,
                 inside, result, log>>

\* a scan iteration that finds a line: the trace locals are set up
StartTrace ==
  /\ pc = "scan"
  /\ origy < height - 1
  /\ ~scanSkips(origy * cWidth + origx)
  /\ idx' = contour[origy * cWidth + origx]
  /\ x' = origx
  /\ y' = origy
  /\ prevx' = -1
  /\ prevy' = -1
  /\ startx' = -1
  /\ starty' = -1
  /\ direction' = 0
  /\ coords' = <<>>
  /\ pc' = "trace"
  /\ outcome' = "tracing"
  /\ log' = Append(log, [orig |-> <<origx, origy>>, at |-> <<origx, origy>>,
                         cells |-> <<>>, sums |-> <<>>, coords |-> <<>>,
                         outcome |-> "tracing"])
  /\ UNCHANGED <<args, contour, found, shells, holes, origx, origy, holeIdx, inside,
                 result>>

FoundAt(i) == IF i \in DOMAIN found THEN found[i] ELSE Undefined
ContourAt(i) == IF i \in DOMAIN contour THEN contour[i] ELSE Undefined

\* mutant: the winding term is the step in x alone
windingTerm_xOnly(sx, sy, nx, ny) == nx - sx

\* mutant: the sign of the winding term is the textbook one
windingTerm_negated(sx, sy, nx, ny) == (sx - nx) * (ny + sy)

\* if (coords.length > maxCoordinates)
\* mutant: the cap is never applied
overCap_never(n, cap) == FALSE

overCap(n, cap) == n > cap

\* direction += (x - startx) * (y + starty)
windingTerm(sx, sy, nx, ny) == (nx - sx) * (ny + sy)

\* mutant: the ring is left open
closeRing_open(cs) == cs

\* coords.push(coords[0])
closeRing(cs) == Append(cs, cs[1])

\* mutant: saddles are marked as well
markFound_saddles(f, i, case) ==
  IF i \in DOMAIN f THEN [f EXCEPT ![i] = 1] ELSE f

\* if (idx !== 5 && idx !== 10) found[y * cWidth + x] = 1
markFound(f, i, case) ==
  IF case # 5 /\ case # 10 /\ i \in DOMAIN f THEN [f EXCEPT ![i] = 1] ELSE f

\* the trace locals as they are
current ==
  [x |-> x, y |-> y, prevx |-> prevx, prevy |-> prevy, startx |-> startx,
   starty |-> starty, idx |-> idx, direction |-> direction, coords |-> coords,
   found |-> found, outcome |-> "tracing"]

\* one iteration of `while (true)`: the locals after it, and how it ended
\* ("tracing": the loop goes on)
traceStep ==
  LET i == y * cWidth + x IN
  IF FoundAt(i) = 1
  THEN [current EXCEPT !.outcome = "crossed"]
  ELSE
    LET idx1 == ContourAt(i)
        s1 == [current EXCEPT
                 !.prevx = startx, !.prevy = starty, !.startx = x, !.starty = y,
                 !.idx = idx1,
                 !.found = markFound(found, i, idx1)]
    IN
    IF idx1 = 0 \/ idx1 = 15
    THEN [s1 EXCEPT !.outcome = "ranoff"]
    ELSE
      LET nxt == followLoop(idx1, startx, starty, x, y) IN
      IF nxt = <<>>
      THEN \* destructuring `undefined` throws a TypeError out of jsolines
           [s1 EXCEPT !.outcome = "threw"]
      ELSE
        LET nx == nxt[1]
            ny == nxt[2]
            coord == IF interpolation
                     THEN interpolate(surface, width, height, cutoff, x, y, nx, ny)
                     ELSE noInterpolate(x, y, nx, ny)
            coords1 == Append(coords, project(coord))
            s2 == [s1 EXCEPT !.x = nx, !.y = ny,
                             !.direction = direction + windingTerm(x, y, nx, ny)]
        IN
        IF coord = <<>>
        THEN [s2 EXCEPT !.outcome = "noshift"]
        ELSE IF overCap(Len(coords1), maxCoordinates)
        THEN [s2 EXCEPT !.coords = coords1, !.outcome = "oversize"]
        ELSE IF nx = origx /\ ny = origy
        THEN [s2 EXCEPT !.coords = closeRing(coords1), !.outcome = "closed"]
        ELSE [s2 EXCEPT !.coords = coords1]

\* mutant: the winding test reversed
classify_reversed(ring, dir) ==
  IF dir < 0
  THEN shells' = Append(shells, <<ring>>) /\ holes' = holes
  ELSE holes' = Append(holes, <<ring>>) /\ shells' = shells

\* if (direction > 0) shells.push(geom) else holes.push(geom)
classify(ring, dir) ==
  IF dir > 0
  THEN shells' = Append(shells, <<ring>>) /\ holes' = holes
  ELSE holes' = Append(holes, <<ring>>) /\ shells' = shells

\* the history of the trace in progress, after a step that ended as r
logStep(r) ==
  LET n == Len(log)
      entered == r.outcome # "crossed"
      moved == r.outcome \notin {"crossed", "ranoff", "threw"}
  IN [log EXCEPT
        ![n].cells = IF entered THEN Append(@, <<x, y>>) ELSE @,
        ![n].sums = IF moved THEN Append(@, r.direction) ELSE @,
        ![n].at = <<r.x, r.y>>,
        ![n].coords = r.coords,
        ![n].outcome = r.outcome]

TraceStep ==
  /\ pc = "trace"
  /\ LET r == traceStep IN
     /\ x' = r.x
     /\ y' = r.y
     /\ prevx' = r.prevx
     /\ prevy' = r.prevy
     /\ startx' = r.startx
     /\ starty' = r.starty
     /\ idx' = r.idx
     /\ direction' = r.direction
     /\ coords' = r.coords
     /\ found' = r.found
     /\ outcome' = r.outcome
     /\ log' = logStep(r)
     /\ IF r.outcome = "tracing"
        THEN UNCHANGED <<pc, origx, origy>>
        ELSE IF r.outcome = "threw"
        THEN pc' = "threw" /\ UNCHANGED <<origx, origy>>
        ELSE pc' = "scan" /\ NextOrig   \* break: the scan goes on
     /\ IF r.outcome = "closed"
        THEN classify(r.coords, r.direction)
        ELSE UNCHANGED <<shells, holes>>
  /\ UNCHANGED <<args, contour, holeIdx, inside, result>>

\* what inside(holePoint, shell) answers for each hole and shell: the
\* point-in-polygon test is a relation given from outside
InsideRelations == [1 .. Len(holes) -> [1 .. Len(shells) -> BOOLEAN]]

\* the scan is over: holes.forEach begins
BeginNest ==
  /\ pc = "scan"
  /\ origy >= height - 1
  /\ pc' = "nest"
  /\ holeIdx' = 1
  /\ inside' \in InsideRelations
  /\ UNCHANGED <<args, contour, found, shells, holes, origx, origy, trace, outcome,
                 result, log>>

\* mutant: the last shell that contains the point
containingShell_last(row) ==
  LET hits == {s \in DOMAIN row : row[s]}
  IN IF hits = {} THEN 0 ELSE CHOOSE s \in hits : \A t \in hits : s >= t

\* shells.find((shell) => inside(holePoint, shell)): index of the first hit, 0 for none
containingShell(row) ==
  LET hits == {s \in DOMAIN row : row[s]}
  IN IF hits = {} THEN 0 ELSE CHOOSE s \in hits : \A t \in hits : s <= t

\* the shells after the callback of holes.forEach has run for `hole`
nestHole(shs, hole, row) ==
  LET s == containingShell(row)
  IN IF s # 0 THEN [shs EXCEPT ![s] = Append(@, hole[1])] ELSE shs

NestHole ==
  /\ pc = "nest"
  /\ holeIdx <= Len(holes)
  /\ shells' = nestHole(shells, holes[holeIdx], inside[holeIdx])
  /\ holeIdx' = holeIdx + 1
  /\ UNCHANGED <<args, contour, found, holes, origx, origy, trace, pc, outcome, inside,
                 result, log>>

\* coordinates: shells.map(s => s.geometry.coordinates)
multiPolygon(shs) == [s \in 1 .. Len(shs) |-> shs[s]]

Return ==
  /\ pc = "nest"
  /\ holeIdx > Len(holes)
  /\ pc' = "done"
  /\ result' = multiPolygon(shells)
  /\ UNCHANGED <<args, contour, found, shells, holes, origx, origy, trace, outcome,
                 holeIdx, inside, log>>

Next ==
  \/ GetContour
  \/ ScanSkip
  \/ StartTrace
  \/ TraceStep
  \/ BeginNest
  \/ NestHole
  \/ Return

Spec == Init /\ [][Next]_vars

SpecCap == InitCap /\ [][Next]_vars

SpecNest == InitNest /\ [][Next]_vars

\* jsolines runs on one thread: whenever it has a next statement, it executes it
SpecLive == InitLive /\ [][Next]_vars /\ WF_vars(Next)

\* the exported getContour alone
NextContour == GetContour

SpecContour == InitContour /\ [][NextContour]_vars

\* =================================================================== claims
Bit(v, k) == (v \div (2 ^ k)) % 2

isBelow(i) == surface[i] < cutoff

CellIndexes == 0 .. ((width - 1) * (height - 1) - 1)
CellX(i) == i % (width - 1)
CellY(i) == i \div (width - 1)
IsEdgeCell(i) ==
  CellX(i) = 0 \/ CellX(i) = width - 2 \/ CellY(i) = 0 \/ CellY(i) = height - 2

\* the four samples of the cell with index i
TL(i) == CellY(i) * width + CellX(i)
TR(i) == TL(i) + 1
BL(i) == TL(i) + width
BR(i) == TL(i) + width + 1

bit(b) == IF b THEN 1 ELSE 0

\* C1: the case of a cell that touches no edge of the grid is
\* 8*[TL] + 4*[TR] + 2*[BR] + 1*[BL], where [s] is 1 iff the sample is strictly
\* below the cutoff.
C1_CaseEncoding ==
  pc # "start" =>
    \A i \in CellIndexes :
      ~IsEdgeCell(i) =>
        contour[i] = 8 * bit(isBelow(TL(i))) + 4 * bit(isBelow(TR(i)))
                     + 2 * bit(isBelow(BR(i))) + bit(isBelow(BL(i)))

\* an inner cell with top-left and bottom-right below and the two other
\* corners equal to the cutoff has case 10
C1_Witness ==
  /\ pc # "start"
  /\ \E i \in CellIndexes :
       /\ ~IsEdgeCell(i)
       /\ isBelow(TL(i)) /\ isBelow(BR(i))
       /\ surface[TR(i)] = cutoff /\ surface[BL(i)] = cutoff
       /\ contour[i] = 10

\* C2: edge-closing rule: a cell in the first column has bits 3 and 0 clear, one
\* in the last column bits 2 and 1, one in the first row bits 3 and 2, one in
\* the last row bits 1 and 0; so no edge cell has case 5, 10 or 15, and the
\* case grid has (width-1)*(height-1) entries in 0..15.
C2_EdgeClosing ==
  pc # "start" =>
    /\ DOMAIN contour = 0 .. ((width - 1) * (height - 1) - 1)
    /\ \A i \in CellIndexes :
         /\ contour[i] \in 0 .. 15
         /\ CellX(i) = 0 => Bit(contour[i], 3) = 0 /\ Bit(contour[i], 0) = 0
         /\ CellX(i) = width - 2 => Bit(contour[i], 2) = 0 /\ Bit(contour[i], 1) = 0
         /\ CellY(i) = 0 => Bit(contour[i], 3) = 0 /\ Bit(contour[i], 2) = 0
         /\ CellY(i) = height - 2 => Bit(contour[i], 1) = 0 /\ Bit(contour[i], 0) = 0
         /\ IsEdgeCell(i) => contour[i] \notin {5, 10, 15}

\* a cell of the last column, on no other edge, whose four samples are all
\* below the cutoff: it keeps only its two left corners
C2_Witness ==
  /\ pc # "start"
  /\ \E i \in CellIndexes :
       /\ CellX(i) = width - 2 /\ CellX(i) # 0
       /\ CellY(i) # 0 /\ CellY(i) # height - 2
       /\ isBelow(TL(i)) /\ isBelow(TR(i)) /\ isBelow(BL(i)) /\ isBelow(BR(i))
       /\ contour[i] = 9

AllAtOrAbove == \A i \in DOMAIN surface : surface[i] >= cutoff
AllBelow == \A i \in DOMAIN surface : surface[i] < cutoff

\* C3: when every sample is at or above the cutoff the case grid is all 0,
\* the scan starts no trace and the result has no polygon.
C3_NothingBelow ==
  AllAtOrAbove =>
    /\ pc # "start" => \A i \in CellIndexes : contour[i] = 0
    /\ log = <<>>
    /\ pc \notin {"trace", "threw"}
    /\ shells = <<>>
    /\ holes = <<>>
    /\ pc = "done" => result = <<>>

\* jsolines has returned for the largest grid with every sample equal to the cutoff
C3_Witness ==
  /\ AllAtOrAbove
  /\ \A i \in DOMAIN surface : surface[i] = cutoff
  /\ width = MaxWidth
  /\ height = MaxHeight
  /\ pc = "done"
  /\ result = <<>>

EdgeCells == {i \in CellIndexes : IsEdgeCell(i)}
CellOf(i) == <<CellX(i), CellY(i)>>
Range(f) == {f[k] : k \in DOMAIN f}

\* the result is one polygon made of one ring, and that ring was traced
\* through the edge cells of the grid, each once, and through no other cell
OneShellAlongTheEdge ==
  /\ Len(result) = 1
  /\ Len(result[1]) = 1
  /\ holes = <<>>
  /\ Len(log) = 1
  /\ log[1].outcome = "closed"
  /\ result[1][1] = log[1].coords
  /\ Range(log[1].cells) = {CellOf(i) : i \in EdgeCells}
  /\ Len(log[1].cells) = Cardinality(EdgeCells)
  /\ Len(result[1][1]) = Cardinality(EdgeCells) + 1

\* C4 as stated: for every width >= 2 and height >= 2, when every sample is
\* below the cutoff the result is one polygon whose single ring is a shell
\* running through the edge cells, and there is no hole.
C4_Original == (AllBelow /\ pc = "done") => OneShellAlongTheEdge

\* C4 amended: the same for every width >= 3 and height >= 3.
C4_Amended ==
  (AllBelow /\ width >= 3 /\ height >= 3 /\ pc = "done") => OneShellAlongTheEdge

\* jsolines has returned the shell of the largest grid, all of it below the cutoff
C4_Witness ==
  /\ AllBelow
  /\ width = MaxWidth
  /\ height = MaxHeight
  /\ pc = "done"
  /\ OneShellAlongTheEdge

ClosedTraces == {k \in DOMAIN log : log[k].outcome = "closed"}

IsClosedRing(r) == Len(r) >= 2 /\ r[Len(r)] = r[1]

\* C5: every ring in shells or holes is non-empty and ends on its first
\* coordinate, and rings come from closing steps only: there are as many rings
\* as traces that closed, each such trace stands on the cell it started from,
\* and its coordinates are one of the rings.
C5_RingsClosed ==
  /\ \A s \in DOMAIN shells : \A k \in DOMAIN shells[s] : IsClosedRing(shells[s][k])
  /\ \A h \in DOMAIN holes : Len(holes[h]) = 1 /\ IsClosedRing(holes[h][1])
  /\ Len(shells) + Len(holes) = Cardinality(ClosedTraces)
  /\ \A k \in ClosedTraces :
       /\ log[k].at = log[k].orig
       /\ \/ \E s \in DOMAIN shells : shells[s][1] = log[k].coords
          \/ \E h \in DOMAIN holes : holes[h][1] = log[k].coords

\* the rim of the grid is below the cutoff and jsolines has returned a shell
\* that runs along it, with a hole nested in it
C5_Witness ==
  /\ pc = "done"
  /\ isBelow(0)
  /\ Len(result) = 1
  /\ Len(result[1]) = 2
  /\ \E k \in ClosedTraces : log[k].orig = <<0, 0>>

\* the cells a trace has stood on, in order
PathOf(e) == IF Len(e.sums) = Len(e.cells) THEN Append(e.cells, e.at) ELSE e.cells

RECURSIVE WindingSum(_, _)
WindingSum(path, k) ==
  IF k = 0 THEN 0
  ELSE WindingSum(path, k - 1)
       + (path[k + 1][1] - path[k][1]) * (path[k + 1][2] + path[k][2])

FinalSum(e) == IF e.sums = <<>> THEN 0 ELSE e.sums[Len(e.sums)]

ShellTraces == SelectSeq(log, LAMBDA e : e.outcome = "closed" /\ FinalSum(e) > 0)
HoleTraces == SelectSeq(log, LAMBDA e : e.outcome = "closed" /\ FinalSum(e) <= 0)

\* C6: the winding sum of a trace is 0 at its start and after each step the sum
\* of (newX - oldX) * (newY + oldY) over the steps so far; the rings of the
\* traces that closed with a sum > 0 are the shells, in order, and those of the
\* traces that closed with a sum <= 0 are the holes, in order.
C6_Winding ==
  /\ \A k \in DOMAIN log :
       /\ LET path == PathOf(log[k])
          IN \A j \in DOMAIN log[k].sums : log[k].sums[j] = WindingSum(path, j)
       /\ Len(log[k].sums) \in {Len(log[k].cells), Len(log[k].cells) - 1}
  /\ pc = "trace" => direction = FinalSum(log[Len(log)])
  /\ Len(shells) = Len(ShellTraces)
  /\ Len(holes) = Len(HoleTraces)
  /\ \A k \in DOMAIN shells : shells[k][1] = ShellTraces[k].coords
  /\ \A k \in DOMAIN holes : holes[k] = <<HoleTraces[k].coords>>

\* a shell and a hole have been found, the hole with a negative sum
C6_Witness ==
  /\ pc = "done"
  /\ Len(ShellTraces) >= 1
  /\ Len(HoleTraces) >= 1
  /\ FinalSum(HoleTraces[1]) < 0
  /\ FinalSum(ShellTraces[1]) > 0

\* the first shell, in discovery order, that passes the test for hole h (0: none)
FirstHit(h) ==
  IF \E s \in DOMAIN shells : inside[h][s]
  THEN CHOOSE s \in DOMAIN shells : inside[h][s] /\ \A t \in 1 .. (s - 1) : ~inside[h][t]
  ELSE 0

\* the rings of the holes 1..n whose first hit is shell s, in hole order
RECURSIVE Assigned(_, _)
Assigned(s, n) ==
  IF n = 0 THEN <<>>
  ELSE IF FirstHit(n) = s THEN Append(Assigned(s, n - 1), holes[n][1])
  ELSE Assigned(s, n - 1)

\* C7: with inside(point, shell) a given relation, each hole is appended to
\* the first shell in discovery order that passes the test and to no other, a
\* hole that no shell passes is in no polygon, and the result has one polygon
\* per shell, in discovery order: the shell's ring, then its holes in hole
\* discovery order.
C7_Nesting ==
  /\ pc \in {"nest", "done"} =>
       /\ Len(shells) = Len(ShellTraces)
       /\ \A s \in DOMAIN shells :
            shells[s] = <<ShellTraces[s].coords>> \o Assigned(s, holeIdx - 1)
  /\ pc = "done" =>
       /\ holeIdx = Len(holes) + 1
       /\ result = shells
       /\ DOMAIN result = 1 .. Len(ShellTraces)

\* two shells pass the test for the one hole, and the first has taken it
C7_Witness ==
  /\ pc = "done"
  /\ Len(holes) = 1
  /\ Len(result) = 2
  /\ inside[1][1] /\ inside[1][2]
  /\ Len(result[1]) = 2
  /\ Len(result[2]) = 1
  /\ result[1][2] = holes[1][1]

\* the cells of the contour loop through cell c, walked from c as a trace
\* walks them; <<>> when the walk does not come back to c
RECURSIVE LoopWalk(_, _, _, _)
LoopWalk(c, p, start, acc) ==
  LET i == ContourAt(c[2] * cWidth + c[1])
      nxt == followLoop(i, p[1], p[2], c[1], c[2])
  IN IF Len(acc) > 2 * Cardinality(CellIndexes) \/ i \in {0, 15} \/ nxt = <<>> THEN <<>>
     ELSE IF nxt = start THEN Append(acc, c)
     ELSE LoopWalk(nxt, c, start, Append(acc, c))

LoopOf(c) == LoopWalk(c, <<-1, -1>>, c, <<>>)

LineCells == {i \in CellIndexes : contour[i] \notin {0, 5, 10, 15}}

AllRings ==
  UNION {Range(shells[s]) : s \in DOMAIN shells} \cup {holes[h][1] : h \in DOMAIN holes}

\* C8: a loop that needs more than maxCoordinates vertices gives no ring,
\* whole or partial. At all times a ring has at most maxCoordinates + 1
\* coordinates and there are as many rings as traces that closed, so an
\* aborted trace adds none. When the scan is over: every trace that closed
\* walked the whole loop of its first cell, a loop of at most maxCoordinates
\* cells, and its ring is in shells or holes; no trace started on a longer
\* loop closed; the coordinates of an aborted trace are no ring; and every
\* loop that fits under the cap was traced to its close.
C8_RingCap ==
  /\ \A r \in AllRings : Len(r) <= maxCoordinates + 1
  /\ pc \in {"scan", "trace"} => Len(shells) + Len(holes) = Cardinality(ClosedTraces)
  /\ (pc = "nest" /\ holeIdx = 1) =>
       /\ \A k \in DOMAIN log :
            IF log[k].outcome = "closed"
            THEN /\ log[k].cells = LoopOf(log[k].orig)
                 /\ Len(log[k].cells) <= maxCoordinates
                 /\ Len(log[k].coords) = Len(log[k].cells) + 1
                 /\ log[k].coords \in AllRings
            ELSE /\ log[k].outcome \in {"oversize", "crossed"}
                 /\ log[k].coords \notin AllRings
                 /\ Len(LoopOf(log[k].orig)) > maxCoordinates
       /\ \A i \in LineCells :
            Len(LoopOf(CellOf(i))) <= maxCoordinates =>
              \E k \in ClosedTraces : CellOf(i) \in Range(log[k].cells)

\* one loop was too long and its trace aborted, a later trace on the rest of
\* that loop ran into it, and a loop that fits was emitted
C8_Witness ==
  /\ pc = "done"
  /\ \E a, b, c \in DOMAIN log :
       /\ log[a].outcome = "oversize"
       /\ log[b].outcome = "crossed"
       /\ b > a
       /\ log[b].orig \in Range(LoopOf(log[a].orig))
       /\ log[c].outcome = "closed"
       /\ Len(log[c].coords) = maxCoordinates + 1
  /\ Len(result) = 1

\* the midpoint of the edge that the cells a and b share
Midpoint(a, b) ==
  IF a[2] = b[2]
  THEN <<Whole(IF a[1] > b[1] THEN a[1] ELSE b[1]), <<2 * a[2] + 1, 2>>>>
  ELSE <<<<2 * a[1] + 1, 2>>, Whole(IF a[2] > b[2] THEN a[2] ELSE b[2])>>

IsMidpoint(c) ==
  \/ c[1][2] = 1 /\ c[2][2] = 2 /\ c[2][1] % 2 = 1
  \/ c[1][2] = 2 /\ c[2][2] = 1 /\ c[1][1] % 2 = 1

\* C9: without interpolation and with the identity projection, every
\* coordinate a trace pushes is the midpoint of the edge shared by the step's
\* old and new cell (an integer and an integer plus 1/2), whatever the samples
\* are, and so is every coordinate of every ring.
C9_Midpoints ==
  ~interpolation =>
    /\ \A k \in DOMAIN log :
         LET path == PathOf(log[k])
         IN \A j \in DOMAIN log[k].sums :
              log[k].coords[j] = Midpoint(path[j], path[j + 1])
    /\ \A r \in AllRings : \A j \in DOMAIN r : IsMidpoint(r[j])

\* a shell with a hole has been returned without interpolation
C9_Witness ==
  /\ ~interpolation
  /\ pc = "done"
  /\ Len(result) = 1
  /\ Len(result[1]) = 2
  /\ \E j \in DOMAIN result[1][2] : result[1][2][j][1][2] = 2
  /\ \E j \in DOMAIN result[1][2] : result[1][2][j][2][2] = 2

\* a 4 x 4 grid whose four inner samples are below the cutoff, the others not
InnerBlock ==
  /\ width = 4
  /\ height = 4
  /\ interpolation
  /\ \A i \in DOMAIN surface : isBelow(i) <=> i \in {5, 6, 9, 10}

\* the result is one polygon of one ring with n coordinates before the closing one
OneShellOf(n) ==
  /\ Len(result) = 1
  /\ Len(result[1]) = 1
  /\ holes = <<>>
  /\ Len(result[1][1]) = n + 1
  /\ IsClosedRing(result[1][1])
  /\ Cardinality(Range(result[1][1])) = n

\* C10 as stated: the shell of the inner 2 x 2 block has exactly 4 crossings
C10_Original == (InnerBlock /\ pc = "done") => OneShellOf(4)

\* C10 amended: it has exactly 8 crossings, one for each of the 8 cells around
\* the middle cell
C10_Amended ==
  (InnerBlock /\ pc = "done") =>
    /\ OneShellOf(8)
    /\ Len(log) = 1
    /\ Range(log[1].cells) = {CellOf(i) : i \in CellIndexes \ {4}}

C10_Witness == InnerBlock /\ pc = "done" /\ OneShellOf(8)

\* is the sample value s strictly below the cutoff
valueBelow(s) == s # Undefined /\ s < cutoff

\* is the number r = <<n, d>> between the integers lo and hi
Between(r, lo, hi) == r[2] > 0 /\ lo * r[2] <= r[1] /\ r[1] <= hi * r[2]

\* does the point p lie on the edge that the cells a and b share
OnSharedEdge(p, a, b) ==
  IF a[2] = b[2]
  THEN /\ p[1] = Whole(IF a[1] > b[1] THEN a[1] ELSE b[1])
       /\ Between(p[2], a[2], a[2] + 1)
  ELSE /\ p[2] = Whole(IF a[2] > b[2] THEN a[2] ELSE b[2])
       /\ Between(p[1], a[1], a[1] + 1)

InGrid(p) == Between(p[1], 0, width - 1) /\ Between(p[2], 0, height - 1)

\* the steps of trace e that pushed a coordinate
StepsOf(e) == {j \in DOMAIN e.sums : j <= Len(e.coords)}

\* step j of trace e, whose cells are path, crossed an edge whose two
\* samples, rim samples replaced by the cutoff, lie on opposite sides of the
\* cutoff; the fraction is in 0..1 and the pushed vertex is the point at that
\* fraction of the shared edge
CrossingInRange(e, path, j) ==
  LET a == path[j]
      b == path[j + 1]
      k == crossedEdge(surface, width, height, cutoff, a[1], a[2], b[1], b[2])
      frac == fraction(cutoff, k[1], k[2])
  IN /\ k # <<>>
     /\ valueBelow(k[1]) # valueBelow(k[2])
     /\ k[1] # Undefined /\ k[2] # Undefined
     /\ Between(frac, 0, 1)
     /\ e.coords[j] = IF a[2] = b[2]
                      THEN <<Whole(IF a[1] > b[1] THEN a[1] ELSE b[1]), Plus(b[2], frac)>>
                      ELSE <<Plus(b[1], frac), Whole(IF a[2] > b[2] THEN a[2] ELSE b[2])>>
     /\ OnSharedEdge(e.coords[j], a, b)
     /\ InGrid(e.coords[j])

\* C11: with interpolation, at every step of every trace the two corner
\* samples of the crossed edge (rim corners replaced by the cutoff) lie on
\* opposite sides of the cutoff, one strictly below and one at or above, so
\* the fraction (cutoff - a) / (b - a) is in 0..1 and the pushed vertex lies
\* on the edge shared by the old and the new cell, inside
\* [0, width-1] x [0, height-1].
C11_FractionRange ==
  interpolation =>
    \A n \in DOMAIN log :
      LET path == PathOf(log[n])
      IN \A j \in StepsOf(log[n]) : CrossingInRange(log[n], path, j)

\* a returned ring has a vertex at fraction 1/2 of an edge between two inner
\* samples and a vertex pushed onto a rim sample replaced by the cutoff
C11_Witness ==
  /\ interpolation
  /\ pc = "done"
  /\ \E n \in DOMAIN log :
       /\ log[n].outcome = "closed"
       /\ \E j \in StepsOf(log[n]) :
            log[n].coords[j][1][2] = 2 \/ log[n].coords[j][2][2] = 2
       /\ \E j \in StepsOf(log[n]) :
            LET a == PathOf(log[n])[j]
                b == PathOf(log[n])[j + 1]
                k == crossedEdge(surface, width, height, cutoff, a[1], a[2], b[1], b[2])
                i == b[2] * width + b[1]
            IN /\ k[2] = cutoff
               /\ a[1] < b[1]
               /\ b[2] = height - 2
               /\ surface[i + width] < cutoff

\* how many times the traces that closed stood on cell c
Traversals(c) ==
  Cardinality({kj \in UNION {{<<k, j>> : j \in DOMAIN log[k].cells} : k \in ClosedTraces} :
                 log[kj[1]].cells[kj[2]] = c})

SaddleCells == {i \in CellIndexes : contour[i] \in {5, 10}}

\* C12: with the default cap, when jsolines has returned, every cell whose
\* case is not 0, 5, 10 or 15 was traversed by exactly one emitted ring and
\* every saddle cell (case 5 or 10) was traversed exactly twice by emitted
\* rings, so a loop through saddle cells only is emitted too.
C12_Coverage ==
  pc = "done" =>
    /\ \A i \in LineCells : Traversals(CellOf(i)) = 1
    /\ \A i \in SaddleCells : Traversals(CellOf(i)) = 2

InnerCells == {i \in CellIndexes : ~IsEdgeCell(i)}

\* C13 as stated: in every cell that touches no edge of the grid, bit 3 of the
\* case is set iff the top-left sample is below the cutoff, bit 2 iff the
\* top-right, bit 1 iff the bottom-left and bit 0 iff the bottom-right.
C13_Original ==
  pc # "start" =>
    \A i \in InnerCells :
      /\ Bit(contour[i], 3) = 1 <=> isBelow(TL(i))
      /\ Bit(contour[i], 2) = 1 <=> isBelow(TR(i))
      /\ Bit(contour[i], 1) = 1 <=> isBelow(BL(i))
      /\ Bit(contour[i], 0) = 1 <=> isBelow(BR(i))

\* C13 amended: bit 3 is the top-left sample, bit 2 the top-right, bit 1 the
\* bottom-RIGHT and bit 0 the bottom-LEFT: the corners in clockwise order.
C13_Amended ==
  pc # "start" =>
    \A i \in InnerCells :
      /\ Bit(contour[i], 3) = 1 <=> isBelow(TL(i))
      /\ Bit(contour[i], 2) = 1 <=> isBelow(TR(i))
      /\ Bit(contour[i], 1) = 1 <=> isBelow(BR(i))
      /\ Bit(contour[i], 0) = 1 <=> isBelow(BL(i))

\* an inner cell with only its bottom-right sample below the cutoff, the
\* bottom-left sample equal to the cutoff: its case is 2
C13_Witness ==
  /\ pc # "start"
  /\ \E i \in InnerCells :
       /\ isBelow(BR(i)) /\ surface[BL(i)] = cutoff /\ ~isBelow(TL(i)) /\ ~isBelow(TR(i))
       /\ contour[i] = 2

\* the current cells of the steps of the traces 1..n, in order
RECURSIVE StepsUpTo(_)
StepsUpTo(n) == IF n = 0 THEN <<>> ELSE StepsUpTo(n - 1) \o log[n].cells

AllSteps == StepsUpTo(Len(log))

\* how many steps of the sequence all had cell c as their current cell
Count(all, c) == Len(SelectSeq(all, LAMBDA d : d = c))

\* how many trace steps, of any trace, had cell c as their current cell
StepsOn(c) == Count(AllSteps, c)

\* C14: over one invocation, closed and aborted traces alike, a cell whose
\* case is not 5 or 10 is the current cell of at most one trace step; a saddle
\* cell is never marked visited and is the current cell of at most two steps;
\* and a mark that was set is never cleared: at every point of the call,
\* after a break too, a cell is marked iff it is no saddle and some step of
\* some trace so far had it as its current cell.
C14_VisitedMarks ==
  pc # "start" =>
    LET all == AllSteps
    IN \A i \in CellIndexes :
         LET n == Count(all, CellOf(i))
         IN IF contour[i] \in {5, 10}
            THEN found[i] = 0 /\ n <= 2
            ELSE n <= 1 /\ (found[i] = 1 <=> n = 1)

\* jsolines has returned; a trace was aborted over the cap and the cells it
\* stood on are still marked, and a saddle was the current cell of two steps
C14_Witness ==
  /\ pc = "done"
  /\ \E k \in DOMAIN log :
       /\ log[k].outcome = "oversize"
       /\ \A j \in DOMAIN log[k].cells :
            LET c == log[k].cells[j]
            IN contour[c[2] * cWidth + c[1]] \notin {5, 10} => found[c[2] * cWidth + c[1]] = 1
  /\ \E i \in SaddleCells : StepsOn(CellOf(i)) = 2

\* the steps of trace e: the cells it had as current cell
StepCount(e) == Len(e.cells)

\* C15 as stated: a trace that closes does so after at most
\* (width-1)*(height-1) steps, the number of cells; no ring that took more
\* steps is emitted.
C15_Original ==
  \A k \in ClosedTraces : StepCount(log[k]) <= (width - 1) * (height - 1)

\* a 5 x 5 grid with the centre sample and its four diagonal neighbours below
\* the cutoff, the others not
DiagonalCross ==
  /\ width = 5
  /\ height = 5
  /\ \A i \in DOMAIN surface : isBelow(i) <=> i \in {6, 8, 12, 16, 18}

\* C15 amended: a trace steps on a cell that is no saddle at most once and on
\* a saddle at most twice, so it closes or is aborted after at most
\* (number of cells) + (number of saddle cells) steps, and no ring that took
\* more steps is emitted. The bound is reached: the 5 x 5 grid whose centre
\* and four diagonal neighbours are below gives one ring of 20 steps through
\* 16 cells, the 4 saddles twice each.
C15_Amended ==
  /\ \A k \in DOMAIN log :
       /\ StepCount(log[k]) <= Cardinality(CellIndexes) + Cardinality(SaddleCells)
       /\ \A i \in CellIndexes :
            Count(log[k].cells, CellOf(i)) <= IF i \in SaddleCells THEN 2 ELSE 1
  /\ \A r \in AllRings : Len(r) <= Cardinality(CellIndexes) + Cardinality(SaddleCells) + 1
  /\ (DiagonalCross /\ pc = "done") =>
       /\ Len(log) = 1
       /\ log[1].outcome = "closed"
       /\ StepCount(log[1]) = 20
       /\ Len(result) = 1 /\ Len(result[1]) = 1 /\ Len(result[1][1]) = 21

\* jsolines has returned a ring that took more steps than the grid has cells
C15_Witness ==
  /\ pc = "done"
  /\ \E k \in ClosedTraces :
       /\ StepCount(log[k]) > (width - 1) * (height - 1)
       /\ \E s \in DOMAIN result : result[s][1] = log[k].coords

\* is the sample at column sx, row sy classified below by getContour: below
\* the cutoff and not on the rim of the grid
ClassifiedBelow(sx, sy) ==
  /\ sx \in 1 .. (width - 2)
  /\ sy \in 1 .. (height - 2)
  /\ surface[sy * width + sx] < cutoff

\* the step from cell a to cell b goes to an edge-adjacent cell and crosses an
\* edge whose corner on the left of the direction of travel is classified
\* below and whose other corner is not (+y is down)
FilledOnLeft(a, b) ==
  LET dx == b[1] - a[1]
      dy == b[2] - a[2]
  IN /\ <<dx, dy>> \in {<<-1, 0>>, <<1, 0>>, <<0, 1>>, <<0, -1>>}
     /\ dx = -1 => ClassifiedBelow(a[1], a[2] + 1) /\ ~ClassifiedBelow(a[1], a[2])
     /\ dx = 1 => ClassifiedBelow(a[1] + 1, a[2]) /\ ~ClassifiedBelow(a[1] + 1, a[2] + 1)
     /\ dy = 1 => ClassifiedBelow(a[1] + 1, a[2] + 1) /\ ~ClassifiedBelow(a[1], a[2] + 1)
     /\ dy = -1 => ClassifiedBelow(a[1], a[2]) /\ ~ClassifiedBelow(a[1] + 1, a[2])

\* the exit of step j of the trace through the cells path is the one the table gives for the case of
\* its cell and, in a saddle, for the side it was entered from
ExitOfTable(path, j) ==
  LET a == path[j]
      b == path[j + 1]
      case == contour[a[2] * cWidth + a[1]]
      dx == b[1] - a[1]
      dy == b[2] - a[2]
      p == IF j = 1 THEN <<-1, -1>> ELSE path[j - 1]
  IN /\ case \in {1, 3, 7} => <<dx, dy>> = <<-1, 0>>
     /\ case \in {4, 12, 13} => <<dx, dy>> = <<1, 0>>
     /\ case \in {2, 6, 14} => <<dx, dy>> = <<0, 1>>
     /\ case \in {8, 9, 11} => <<dx, dy>> = <<0, -1>>
     /\ case = 5 => /\ p[2] # a[2]
                    /\ p[2] > a[2] => <<dx, dy>> = <<1, 0>>
                    /\ p[2] < a[2] => <<dx, dy>> = <<-1, 0>>
     /\ case = 10 => /\ p[1] # a[1]
                     /\ p[1] < a[1] => <<dx, dy>> = <<0, 1>>
                     /\ p[1] > a[1] => <<dx, dy>> = <<0, -1>>

\* C16: every trace step goes from its cell to the cell the exit table gives
\* (1,3,7: -x; 4,12,13: +x; 2,6,14: +y; 8,9,11: -y; 5: +x entered from below,
\* -x from above; 10: +y entered from the left, -y from the right), which is
\* one of the four edge-adjacent cells, and the edge it crosses has exactly
\* one corner classified below, the one on the left of the direction of
\* travel: the bottom corner moving -x, the top moving +x, the right moving
\* +y, the left moving -y.
C16_FilledOnLeft ==
  \A k \in DOMAIN log :
    LET path == PathOf(log[k])
    IN \A j \in DOMAIN log[k].sums :
         /\ ExitOfTable(path, j)
         /\ FilledOnLeft(path[j], path[j + 1])

\* a ring has been returned whose trace moved in all four directions and
\* passed a case-5 and a case-10 saddle
C16_Witness ==
  /\ pc = "done"
  /\ \E k \in ClosedTraces :
       /\ \A d \in {<<-1, 0>>, <<1, 0>>, <<0, 1>>, <<0, -1>>} :
            \E j \in DOMAIN log[k].sums :
              <<PathOf(log[k])[j + 1][1] - PathOf(log[k])[j][1],
                PathOf(log[k])[j + 1][2] - PathOf(log[k])[j][2]>> = d
       /\ \A case \in {5, 10} :
            \E j \in DOMAIN log[k].cells :
              contour[log[k].cells[j][2] * cWidth + log[k].cells[j][1]] = case

\* the iterations of `while (true)` that trace e has run: one for each
\* current cell, and the one that found its cell already visited
IterationsOf(e) == Len(e.cells) + IF e.outcome = "crossed" THEN 1 ELSE 0

\* does cell a come before cell b in the row-major scan
ScannedBefore(a, b) == a[2] < b[2] \/ (a[2] = b[2] /\ a[1] < b[1])

\* a MultiPolygon's coordinates: polygons, each one or more rings of points
IsMultiPolygon(v) ==
  \A s \in DOMAIN v : Len(v[s]) >= 1 /\ \A k \in DOMAIN v[s] : Len(v[s][k]) >= 1

\* each trace has run at most maxCoordinates + 1 iterations, each iteration
\* that did not break pushed one coordinate, the scan has started at most one
\* trace from a cell, in row-major order, and nothing has thrown
BoundedSoFar ==
  /\ pc # "threw"
  /\ \A k \in DOMAIN log :
       /\ IterationsOf(log[k]) <= maxCoordinates + 1
       /\ log[k].outcome = "tracing" => Len(log[k].coords) = Len(log[k].cells)
       /\ k > 1 => ScannedBefore(log[k - 1].orig, log[k].orig)
  /\ pc \in {"scan", "trace"} /\ log # <<>> =>
       \/ log[Len(log)].orig = <<origx, origy>> /\ pc = "trace"
       \/ ScannedBefore(log[Len(log)].orig, <<origx, origy>>)

\* C17: for every surface, cutoff and maxCoordinates >= 1, every trace loop
\* ends after at most maxCoordinates + 1 iterations, each of which breaks or
\* pushes one coordinate; the scan goes on from the next cell and starts at
\* most one trace per cell; and jsolines eventually returns a MultiPolygon
\* and never throws.
C17_Termination ==
  /\ []BoundedSoFar
  /\ <>(pc = "done" /\ IsMultiPolygon(result))

\* jsolines has returned after a trace that ran maxCoordinates + 1 iterations
\* and was aborted, and the scan started another trace after it
C17_Witness ==
  /\ pc = "done"
  /\ \E k \in DOMAIN log :
       /\ log[k].outcome = "oversize"
       /\ IterationsOf(log[k]) = maxCoordinates + 1
       /\ k < Len(log)

\* the traces that have ended
EndedTraces == {k \in DOMAIN log : log[k].outcome # "tracing"}

\* the step that trace e is about to take, or took last, is not one of the
\* aborts: its cell is unvisited, has a line, and is no saddle entered from a
\* side the exit table has no exit for
NoAbortAhead ==
  pc = "trace" =>
    LET i == y * cWidth + x
    IN /\ x \in 0 .. (width - 2)
       /\ y \in 0 .. (height - 2)
       /\ found[i] = 0
       /\ contour[i] \notin {0, 15}
       /\ contour[i] = 5 => starty # y
       /\ contour[i] = 10 => startx # x

\* C18: with the default cap every trace the scan starts ends by closing its
\* ring: no trace finds its cell visited, reaches a cell of case 0 or 15,
\* enters a case-5 saddle from the left or right or a case-10 saddle from
\* above or below, or gets no coordinate from the interpolator; so the number
\* of shells plus holes before nesting is the number of traces started.
C18_NoAbort ==
  /\ pc # "threw"
  /\ \A k \in DOMAIN log : log[k].outcome \in {"tracing", "closed"}
  /\ NoAbortAhead
  /\ \A k \in DOMAIN log : \A j \in DOMAIN log[k].coords : log[k].coords[j] # <<>>
  /\ pc \in {"scan", "trace"} => Len(shells) + Len(holes) = Cardinality(EndedTraces)
  /\ pc \in {"nest", "done"} => Len(shells) + Len(holes) = Len(log)

\* two traces were started and both closed, one of them through a saddle
C18_Witness ==
  /\ pc = "nest"
  /\ holeIdx = 1
  /\ Len(log) = 2
  /\ Len(shells) + Len(holes) = Len(log)
  /\ \E k \in DOMAIN log : \E j \in DOMAIN log[k].cells :
       contour[log[k].cells[j][2] * cWidth + log[k].cells[j][1]] \in {5, 10}

\* is c a cell of the grid
IsCell(c) == c[1] \in 0 .. (width - 2) /\ c[2] \in 0 .. (height - 2)

\* the indexes jsolines and interpolate read for cell c: one into the case
\* grid and the visited array, four into the surface
ReadsInside(c) ==
  /\ (c[2] * cWidth + c[1]) \in DOMAIN contour
  /\ (c[2] * cWidth + c[1]) \in DOMAIN found
  /\ \A d \in {0, 1, width, width + 1} : (c[2] * width + c[1] + d) \in DOMAIN surface

\* C19: in every state of the tracer the current cell has 0 <= x <= width-2
\* and 0 <= y <= height-2, so every read of the case grid, of the visited
\* array and of the four corner samples of the cell uses an index inside the
\* array; no read yields undefined.
C19_InBounds ==
  /\ pc = "trace" => IsCell(<<x, y>>) /\ ReadsInside(<<x, y>>) /\ idx # Undefined
  /\ pc # "threw"
  /\ \A k \in DOMAIN log :
       /\ IsCell(log[k].at) /\ ReadsInside(log[k].at)
       /\ \A j \in DOMAIN log[k].cells :
            IsCell(log[k].cells[j]) /\ ReadsInside(log[k].cells[j])

\* the tracer stands on the bottom-right cell of the largest grid, having
\* come through the bottom-left cell
C19_Witness ==
  /\ pc = "trace"
  /\ width = MaxWidth
  /\ height = MaxHeight
  /\ <<x, y>> = <<width - 2, height - 2>>
  /\ <<0, height - 2>> \in Range(log[Len(log)].cells)

\* C20: the accumulated direction of every ring that closes is a nonzero
\* even integer, so every ring that goes to the holes has a negative
\* direction: the else branch of the winding test never takes a ring of
\* direction 0.
C20_NonzeroWinding ==
  /\ \A k \in ClosedTraces :
       /\ FinalSum(log[k]) # 0
       /\ FinalSum(log[k]) % 2 = 0
       /\ FinalSum(log[k]) = WindingSum(PathOf(log[k]), Len(log[k].sums))
  /\ outcome = "closed" => direction # 0 /\ direction % 2 = 0
  /\ Len(holes) = Cardinality({k \in ClosedTraces : FinalSum(log[k]) < 0})
  /\ Len(shells) = Cardinality({k \in ClosedTraces : FinalSum(log[k]) > 0})

\* a ring around two samples joined across a saddle, which it passes twice,
\* has closed with direction 4, and a ring around one sample with direction 2
C20_Witness ==
  /\ pc = "done"
  /\ Len(result) = 2
  /\ \E k \in ClosedTraces :
       /\ FinalSum(log[k]) = 4
       /\ Len(log[k].cells) = 8
       /\ \E i \in SaddleCells : Count(log[k].cells, CellOf(i)) = 2
  /\ \E k \in ClosedTraces : FinalSum(log[k]) = 2

\* C21: every emitted ring was produced by at least 4 trace steps and has at
\* least 5 coordinates, the closing one included; no trace closes after one,
\* two or three steps, and no step leads back to the cell the step before it
\* left.
C21_MinimumRing ==
  /\ \A k \in ClosedTraces :
       /\ Len(log[k].cells) >= 4
       /\ Len(log[k].coords) = Len(log[k].cells) + 1
  /\ \A r \in AllRings : Len(r) >= 5
  /\ \A k \in DOMAIN log :
       LET path == PathOf(log[k])
       IN \A j \in 1 .. (Len(path) - 2) : path[j + 2] # path[j]

\* four rings of exactly 4 steps and 5 coordinates each have been returned
C21_Witness ==
  /\ pc = "done"
  /\ Len(result) = 4
  /\ \A s \in DOMAIN result : Len(result[s]) = 1 /\ Len(result[s][1]) = 5
  /\ \A k \in DOMAIN log : Len(log[k].cells) = 4

====
